---- MODULE Spec2Model ----
(***************************************************************************)
(* The outbound message queue of services/messageQueue.ts: the ordered     *)
(* store, the periodic dispatcher (processQueue), the per-message delivery *)
(* state machine (processMessage) with its backoff timers, and the         *)
(* callers' operations.  Times are in milliseconds.                        *)
(***************************************************************************)
EXTENDS Integers, Sequences, FiniteSets, TLC

VARIABLES
    msgs,        \* every QueuedMessage object ever created, by id (1, 2, ...)
    queue,       \* this.queue: the ids of the stored messages, in store order
    processing,  \* this.processing
    awaited,     \* ids whose processMessage promise the live Promise.all awaits
    inflight,    \* per id, the processMessage invocations not yet resolved
    timers,      \* outstanding setTimeout callbacks of processMessage
    handlers,    \* this.handlers: the subscriber each subscription point holds
    now,         \* the clock
    nextTick,    \* when the setInterval callback fires next
    ret,         \* the caller's record of what its last call returned
    lastStats,   \* per subscriber, the stats last handed to it
    hist,        \* per id, history: invocations, callbacks, backoff deadline
    registered   \* history: the <<point, subscriber>> registrations made

vars == <<msgs, queue, processing, awaited, inflight, timers, handlers, now,
          nextTick, ret, lastStats, hist, registered>>

----------------------------------------------------------------------------
(* Bounds of the model *)

MaxMsgs == 1            \* messages enqueued in the delivery scenarios
MaxApiMsgs == 2         \* messages enqueued in the store scenarios
MaxOrderMsgs == 4       \* messages enqueued in the ordering scenario
MaxBatchMsgs == 6       \* messages enqueued in the batch scenario
MaxAttemptsBound == 3   \* largest retry budget a caller passes
MaxQuanta == 5          \* how many clock quanta the clock advances
MaxResets == 1          \* manual retry-resets per message
MaxSubs == 2            \* subscribers of each kind
MaxFrameMsgs == 3       \* messages ever enqueued, frame scenario
MaxThrowAttempts == 2   \* maxAttempts, throwing and progress scenarios

(* Constants of the program *)

ProcessInterval == 2000 \* setInterval(..., 2000)
BatchSize == 5          \* pendingMessages.slice(0, 5)
BaseDelay == 1000       \* 1000 * Math.pow(2, attempts - 1)
MaxDelay == 30000       \* Math.min(..., 30000)

\* granularity of the clock: the smallest delay of the program, of which
\* the interval and every backoff delay are multiples
Quantum == BaseDelay

None == -1              \* an absent scheduledFor
NoHandler == 0          \* an absent handler

\* Subscribers: h > 0 returns normally when called, h < 0 throws
Subscribers == {h \in (0 - MaxSubs)..MaxSubs : h # NoHandler}

Throws(h) == h < 0

----------------------------------------------------------------------------
(* Pure helpers *)

Min(a, b) == IF a <= b THEN a ELSE b

RECURSIVE Pow2(_)
Pow2(n) == IF n <= 0 THEN 1 ELSE 2 * Pow2(n - 1)

PriorityOrder(p) ==
    CASE p = "urgent" -> 0
      [] p = "high"   -> 1
      [] p = "normal" -> 2
      [] p = "low"    -> 3

Priorities == {"urgent", "high", "normal", "low"}

Ids == 1..Len(msgs)

InQueue(id) == \E i \in 1..Len(queue) : queue[i] = id

Terminal(s) == s \in {"sent", "failed", "cancelled"}

\* Math.min(1000 * Math.pow(2, message.attempts - 1), 30000)
BackoffDelay(attempts) == Min(BaseDelay * Pow2(attempts - 1), MaxDelay)

\* a case added to the switch: a cancelled message counts as failed
TallyCancelledAsFailed(st, status) ==
    CASE status = "pending"   -> [st EXCEPT !.pending = @ + 1]
      [] status = "sending"   -> [st EXCEPT !.sending = @ + 1]
      [] status = "sent"      -> [st EXCEPT !.sent = @ + 1]
      [] status = "failed"    -> [st EXCEPT !.failed = @ + 1]
      [] status = "cancelled" -> [st EXCEPT !.failed = @ + 1]
      [] OTHER                -> st

\* getStats, the switch on msg.status: one counter grows, none for cancelled
Tally(st, status) ==
    CASE status = "pending" -> [st EXCEPT !.pending = @ + 1]
      [] status = "sending" -> [st EXCEPT !.sending = @ + 1]
      [] status = "sent"    -> [st EXCEPT !.sent = @ + 1]
      [] status = "failed"  -> [st EXCEPT !.failed = @ + 1]
      [] OTHER              -> st

RECURSIVE TallyFrom(_, _, _, _)

\* getStats, this.queue.forEach from position i on
TallyFrom(m, q, i, st) ==
    IF i > Len(q) THEN st
    ELSE TallyFrom(m, q, i + 1, Tally(st, m[q[i]].status))

\* getStats(): the counters start at 0, total is this.queue.length
GetStats(m, q) ==
    TallyFrom(m, q, 1, [pending |-> 0, sending |-> 0, sent |-> 0,
                        failed |-> 0, total |-> Len(q)])

\* notifyStatsChanged(): this.handlers.onQueueStatsChanged?.(this.getStats())
NotifyStatsChanged(m, q) ==
    IF handlers.onQueueStatsChanged # NoHandler
    THEN [lastStats EXCEPT ![handlers.onQueueStatsChanged] = GetStats(m, q)]
    ELSE lastStats

NoRet == [op |-> "none", id |-> 0, val |-> 0]

----------------------------------------------------------------------------
(* The store *)

\* the priority test with <= for <: a newcomer overtakes its equals
GoesBeforeOrEqualPriority(new, cur) ==
    IF new.scheduledFor # None /\ cur.scheduledFor # None
    THEN new.scheduledFor < cur.scheduledFor
    ELSE PriorityOrder(new.priority) <= PriorityOrder(cur.priority)

\* the schedule test lost: placement by priority alone
GoesBeforeByPriorityOnly(new, cur) ==
    PriorityOrder(new.priority) < PriorityOrder(cur.priority)

\* insertByPriority, the test of one resident: does the new message go before it?
GoesBefore(new, cur) ==
    IF new.scheduledFor # None /\ cur.scheduledFor # None
    THEN new.scheduledFor < cur.scheduledFor
    ELSE PriorityOrder(new.priority) < PriorityOrder(cur.priority)

\* insertByPriority, the loop: the first index whose resident the new message
\* goes before, the end of the queue when there is none (1-based)
InsertIndex(m, q, new) ==
    LET hits == {i \in 1..Len(q) : GoesBefore(new, m[q[i]])}
    IN  IF hits = {} THEN Len(q) + 1
        ELSE CHOOSE i \in hits : \A j \in hits : i <= j

\* splice with a delete count of 1: the resident at the index is replaced
InsertOverwriting(m, q, id) ==
    LET i == InsertIndex(m, q, m[id])
    IN  SubSeq(q, 1, i - 1) \o <<id>> \o SubSeq(q, i + 1, Len(q))

\* this.queue.splice(insertIndex, 0, message)
InsertByPriority(m, q, id) ==
    LET i == InsertIndex(m, q, m[id])
    IN  SubSeq(q, 1, i - 1) \o <<id>> \o SubSeq(q, i, Len(q))

\* History of one message: processMessage invocations since it was enqueued or
\* reset, handler calls made for it, manual resets, the end of the backoff
\* delay of its last retried failure (None once it has passed or was used),
\* and whether it belongs to the latest batch and has not resolved since
NewHist == [starts |-> 0, delivered |-> 0, sentCalls |-> 0,
            failedCalls |-> 0, resets |-> 0,
            notBefore |-> None, inBatch |-> FALSE]

\* addMessage(message): returns the new id
AddMessage(p, s, n) ==
    LET id == Len(msgs) + 1
        m2 == Append(msgs, [status |-> "pending", attempts |-> 0,
                            maxAttempts |-> n, priority |-> p,
                            scheduledFor |-> s])
        q2 == InsertByPriority(m2, queue, id)
    IN  /\ msgs' = m2
        /\ queue' = q2
        /\ inflight' = Append(inflight, 0)
        /\ hist' = Append(hist, NewHist)
        /\ lastStats' = NotifyStatsChanged(m2, q2)
        /\ UNCHANGED <<processing, awaited, timers, handlers, now, nextTick>>

\* the condition weakened: whatever is not yet terminal may be cancelled
CanCancelOpen(m, q, id) ==
    /\ \E i \in 1..Len(q) : q[i] = id
    /\ m[id].status \in {"pending", "sending"}

\* cancelMessage, its condition: the message is stored and pending
CanCancel(m, q, id) ==
    /\ \E i \in 1..Len(q) : q[i] = id
    /\ m[id].status = "pending"

\* cancelMessage(messageId), what it returns
CancelReturns(id) == CanCancel(msgs, queue, id)

\* cancelMessage(messageId); id may be the id of no message
CancelMessage(id) ==
    IF CancelReturns(id)
    THEN LET m2 == [msgs EXCEPT ![id].status = "cancelled"]
         IN  /\ msgs' = m2
             /\ lastStats' = NotifyStatsChanged(m2, queue)
             /\ UNCHANGED <<queue, processing, awaited, inflight, timers,
                            handlers, now, nextTick, hist>>
    ELSE UNCHANGED <<msgs, queue, processing, awaited, inflight, timers,
                     handlers, now, nextTick, lastStats, hist>>

\* clearCompleted, its filter
\* the list cut short: cancelled messages stay
CompletedUnlessCancelled(rec) == rec.status \in {"sent", "failed"}

Completed(rec) == rec.status \in {"sent", "failed", "cancelled"}

KeepOpen(id) == ~Completed(msgs[id])

\* clearCompleted(), what it returns
ClearReturns == Len(queue) - Len(SelectSeq(queue, KeepOpen))

\* clearCompleted()
ClearCompleted ==
    LET q2 == SelectSeq(queue, KeepOpen)
        removed == ClearReturns
    IN  /\ queue' = q2
        /\ lastStats' = IF removed > 0 THEN NotifyStatsChanged(msgs, q2)
                        ELSE lastStats
        /\ UNCHANGED <<msgs, processing, awaited, inflight, timers, handlers,
                       now, nextTick, hist>>

\* retryFailed, its condition on one message
Retryable(rec) == rec.status = "failed" /\ rec.attempts < rec.maxAttempts

RetryHits == {id \in Ids : InQueue(id) /\ Retryable(msgs[id])}

\* retryFailed(), what it returns
RetryReturns == Cardinality(RetryHits)

\* retryFailed()
RetryFailed ==
    LET hit == RetryHits
        m2 == [id \in Ids |->
                 IF id \in hit
                 THEN [msgs[id] EXCEPT !.status = "pending", !.attempts = 0]
                 ELSE msgs[id]]
    IN  /\ msgs' = m2
        /\ hist' = [id \in Ids |->
                      IF id \in hit
                      THEN [hist[id] EXCEPT !.starts = 0, !.resets = @ + 1]
                      ELSE hist[id]]
        /\ lastStats' = IF hit # {} THEN NotifyStatsChanged(m2, queue)
                        ELSE lastStats
        /\ UNCHANGED <<queue, processing, awaited, inflight, timers, handlers,
                       now, nextTick>>

\* retryFailedMessage of the messenger component, its condition: getMessage
\* found the message and it is failed
CanReset(m, q, id) ==
    /\ \E i \in 1..Len(q) : q[i] = id
    /\ m[id].status = "failed"

\* the reset that forgets the counter: only the status is written
ResetStatusOnly(rec) == [rec EXCEPT !.status = "pending"]

\* message.status = 'pending'; message.attempts = 0
ResetMessage(rec) == [rec EXCEPT !.status = "pending", !.attempts = 0]

\* retryFailedMessage(messageId): the manual retry-reset, written through the
\* object getMessage returns
RetryFailedMessage(id) ==
    /\ id \in Ids
    /\ CanReset(msgs, queue, id)
    /\ hist[id].resets < MaxResets
    /\ msgs' = [msgs EXCEPT ![id] = ResetMessage(msgs[id])]
    /\ hist' = [hist EXCEPT ![id].starts = 0, ![id].resets = @ + 1]
    /\ UNCHANGED <<queue, processing, awaited, inflight, timers, handlers,
                   now, nextTick, lastStats>>

\* removeMessage(messageId), its condition: findIndex found the message
CanRemove(q, id) == \E i \in 1..Len(q) : q[i] = id

\* removeMessage(messageId), what it returns
RemoveReturns(id) == CanRemove(queue, id)

\* removeMessage(messageId): the message leaves the array whatever its
\* status; its object, its timers and its invocation in flight are not
\* touched
RemoveMessage(id) ==
    IF CanRemove(queue, id)
    THEN LET Other(x) == x # id
             q2 == SelectSeq(queue, Other)
         IN  /\ queue' = q2
             /\ lastStats' = NotifyStatsChanged(msgs, q2)
             /\ UNCHANGED <<msgs, processing, awaited, inflight, timers,
                            handlers, now, nextTick, hist>>
    ELSE UNCHANGED <<msgs, queue, processing, awaited, inflight, timers,
                     handlers, now, nextTick, lastStats, hist>>

\* destroy(): the interval is cleared, the array and the handlers are
\* replaced by empty ones; the message objects, the backoff timers and the
\* invocations in flight are not touched
Destroy ==
    /\ nextTick' = None
    /\ queue' = <<>>
    /\ handlers' = [onMessageSent |-> NoHandler,
                    onMessageFailed |-> NoHandler,
                    onQueueStatsChanged |-> NoHandler]
    /\ UNCHANGED <<msgs, processing, awaited, inflight, timers, now,
                   lastStats, hist>>

\* onMessageSent(handler)
OnMessageSent(h) ==
    /\ handlers' = [handlers EXCEPT !.onMessageSent = h]
    /\ registered' = registered \cup {<<"onMessageSent", h>>}
    /\ UNCHANGED <<msgs, queue, processing, awaited, inflight, timers, now,
                   nextTick, lastStats, hist>>

\* onMessageFailed(handler)
OnMessageFailed(h) ==
    /\ handlers' = [handlers EXCEPT !.onMessageFailed = h]
    /\ registered' = registered \cup {<<"onMessageFailed", h>>}
    /\ UNCHANGED <<msgs, queue, processing, awaited, inflight, timers, now,
                   nextTick, lastStats, hist>>

\* onQueueStatsChanged(handler)
OnQueueStatsChanged(h) ==
    /\ handlers' = [handlers EXCEPT !.onQueueStatsChanged = h]
    /\ registered' = registered \cup {<<"onQueueStatsChanged", h>>}
    /\ UNCHANGED <<msgs, queue, processing, awaited, inflight, timers, now,
                   nextTick, lastStats, hist>>

----------------------------------------------------------------------------
(* The dispatcher and the delivery state machine *)

\* the filter without its second line: pending is enough
EligibleWhenPending(rec, t) == rec.status = "pending"

\* processQueue, its filter: pending and due
Eligible(rec, t) ==
    /\ rec.status = "pending"
    /\ (rec.scheduledFor = None \/ rec.scheduledFor <= t)

EligibleNow(id) == Eligible(msgs[id], now)

\* const pendingMessages = this.queue.filter(...)
PendingMessages == SelectSeq(queue, EligibleNow)

\* the slice lost: every eligible message joins the batch
BatchAll(pend) == pend

\* pendingMessages.slice(0, 5)
Batch(pend) == SubSeq(pend, 1, Min(BatchSize, Len(pend)))

\* the guard lost: a cycle starts whatever the flag says
BusyIgnored == FALSE

\* the flag never released: every cycle returns at once
BusyStuck == TRUE

\* if (this.processing) return
Busy == processing

\* What the transport does with one attempt: send resolves true, resolves
\* false, throws, or isConnected() is false and no send call is made
Outcomes == {"ok", "false", "throws", "notConnected"}

\* the handler of the stats point throws when notifyStatsChanged calls it
StatsThrows == Throws(handlers.onQueueStatsChanged)

\* the try block is left for the catch block: the transport did not deliver,
\* or it did and the onMessageSent handler, called inside the try, throws
Caught(outcome) == outcome # "ok" \/ Throws(handlers.onMessageSent)

\* the test with > for >=: one attempt too many
ExhaustedLate(rec) == rec.attempts > rec.maxAttempts

\* the test off by one the other way: failed one attempt early
ExhaustedEarly(rec) == rec.attempts + 1 >= rec.maxAttempts

\* the catch block's test: message.attempts >= message.maxAttempts
Exhausted(rec) == rec.attempts >= rec.maxAttempts

\* a failure kind set apart: while the transport is not connected the
\* message fails at once, whatever is left of its budget
SettleFailsWhenNotConnected(rec, outcome) ==
    IF outcome = "ok" THEN [rec EXCEPT !.status = "sent"]
    ELSE IF outcome = "notConnected" \/ rec.attempts >= rec.maxAttempts
    THEN [rec EXCEPT !.status = "failed"]
    ELSE [rec EXCEPT !.status = "pending"]

\* success forgotten: the message goes back to pending
SettleNeverSent(rec, outcome) == [rec EXCEPT !.status = "pending"]

\* processMessage after its awaits, on the message object: sent on success,
\* else failed or back to pending
Settle(rec, outcome) ==
    IF ~Caught(outcome) THEN [rec EXCEPT !.status = "sent"]
    ELSE IF Exhausted(rec) THEN [rec EXCEPT !.status = "failed"]
    ELSE [rec EXCEPT !.status = "pending"]

\* the catch block's else branch is taken: a backoff timer is set
Retried(rec, outcome) == Caught(outcome) /\ ~Exhausted(rec)

\* the promise of processMessage rejects: a handler called from the catch
\* block or from the finally block throws
Rejects(rec, outcome) ==
    \/ StatsThrows
    \/ Caught(outcome) /\ Exhausted(rec) /\ Throws(handlers.onMessageFailed)

\* processMessage up to its first await, on one message object:
\* message.status = 'sending'; message.attempts++
Begin(rec) == [rec EXCEPT !.status = "sending", !.attempts = @ + 1]

\* processMessage when notifyStatsChanged throws before the first await:
\* the catch block runs at once and no transport call is made
Abort(rec) == Settle(Begin(rec), "throws")

\* only the first message of the batch is started
BeginFirstOnly(B) ==
    [id \in Ids |->
       IF B # {} /\ id = CHOOSE i \in B : \A j \in B : i <= j
       THEN Begin(msgs[id]) ELSE msgs[id]]

\* the messages after processMessage began for every id of the set B
BeginAll(B) ==
    [id \in Ids |->
       IF id \in B
       THEN IF StatsThrows THEN Abort(msgs[id]) ELSE Begin(msgs[id])
       ELSE msgs[id]]

\* the backoff timers set for the ids of B whose processMessage was aborted
AbortTimers(B) ==
    {[id |-> id, due |-> now + BackoffDelay(msgs[id].attempts + 1)] :
        id \in {i \in B : StatsThrows /\ Retried(Begin(msgs[i]), "throws")}}

BeginHist(B, batch) ==
    [id \in Ids |->
       IF id \notin B THEN hist[id]
       ELSE IF ~StatsThrows
       THEN [hist[id] EXCEPT !.starts = @ + 1, !.notBefore = None,
                             !.inBatch = batch]
       ELSE LET retried == Retried(Begin(msgs[id]), "throws")
            IN  [hist[id] EXCEPT
                   !.starts = @ + 1,
                   !.failedCalls =
                       IF ~retried /\ handlers.onMessageFailed # NoHandler
                       THEN @ + 1 ELSE @,
                   !.notBefore =
                       IF retried
                       THEN now + BackoffDelay(msgs[id].attempts + 1)
                       ELSE None,
                   !.inBatch = FALSE]]

Range(q) == {q[i] : i \in 1..Len(q)}

\* processQueue(), called by the interval timer, up to await Promise.all;
\* when every processMessage was aborted, Promise.all rejects and the finally
\* block releases the flag before any other task runs
ProcessQueue ==
    /\ nextTick # None
    /\ now >= nextTick
    /\ nextTick' = nextTick + ProcessInterval
    /\ IF Busy \/ Len(PendingMessages) = 0
       THEN UNCHANGED <<msgs, queue, processing, awaited, inflight, timers,
                        handlers, now, lastStats, hist>>
       ELSE LET B == Range(Batch(PendingMessages))
                m2 == BeginAll(B)
            IN  /\ processing' = ~StatsThrows
                /\ awaited' = IF StatsThrows THEN {} ELSE B
                /\ msgs' = m2
                /\ inflight' = [id \in Ids |->
                                  IF id \in B /\ ~StatsThrows
                                  THEN inflight[id] + 1
                                  ELSE inflight[id]]
                /\ timers' = timers \cup AbortTimers(B)
                /\ hist' = BeginHist(B, TRUE)
                /\ lastStats' = NotifyStatsChanged(m2, queue)
                /\ UNCHANGED <<queue, handlers, now>>

\* the test lost: the callback retries whatever the status
TimerMayRunAlways(rec) == TRUE

\* the test weakened: the callback retries unless an attempt is in flight
TimerMayRunUnlessSending(rec) == rec.status # "sending"

\* the setTimeout callback's test: message.status === 'pending'
TimerMayRun(rec) == rec.status = "pending"

\* a backoff timer of message t.id fires: the setTimeout callback
TimerFires(t) ==
    /\ t \in timers
    /\ now >= t.due
    /\ IF TimerMayRun(msgs[t.id])
       THEN LET m2 == BeginAll({t.id})
            IN  /\ msgs' = m2
                /\ inflight' = [inflight EXCEPT ![t.id] =
                                  IF StatsThrows THEN @ ELSE @ + 1]
                /\ timers' = (timers \ {t}) \cup AbortTimers({t.id})
                /\ hist' = BeginHist({t.id}, FALSE)
                /\ lastStats' = NotifyStatsChanged(m2, queue)
                /\ UNCHANGED <<queue, processing, awaited, handlers, now,
                               nextTick>>
       ELSE /\ timers' = timers \ {t}
            /\ UNCHANGED <<msgs, queue, processing, awaited, inflight,
                           handlers, now, nextTick, lastStats, hist>>

\* an invocation of processMessage for message id resumes after its awaits
\* with the transport's outcome and runs to its end; when it was the last
\* promise Promise.all awaited, or when it rejects, processQueue's finally
\* releases the flag
Resolve(id, outcome) ==
    /\ id \in Ids
    /\ inflight[id] > 0
    /\ LET rec == msgs[id]
           m2 == [msgs EXCEPT ![id] = Settle(rec, outcome)]
           retried == Retried(rec, outcome)
           due == now + BackoffDelay(rec.attempts)
           a2 == IF id \in awaited /\ Rejects(rec, outcome) THEN {}
                 ELSE awaited \ {id}
       IN  /\ msgs' = m2
           /\ inflight' = [inflight EXCEPT ![id] = @ - 1]
           /\ timers' = IF retried THEN timers \cup {[id |-> id, due |-> due]}
                        ELSE timers
           /\ hist' = [hist EXCEPT
                 ![id].delivered = IF outcome = "ok" THEN @ + 1 ELSE @,
                 ![id].sentCalls =
                     IF outcome = "ok" /\ handlers.onMessageSent # NoHandler
                     THEN @ + 1 ELSE @,
                 ![id].failedCalls =
                     IF Caught(outcome) /\ ~retried
                        /\ handlers.onMessageFailed # NoHandler
                     THEN @ + 1 ELSE @,
                 ![id].notBefore = IF retried THEN due ELSE @,
                 ![id].inBatch = FALSE]
           /\ awaited' = a2
           /\ processing' = IF id \in awaited /\ a2 = {} THEN FALSE
                            ELSE processing
           /\ lastStats' = NotifyStatsChanged(m2, queue)
           /\ UNCHANGED <<queue, handlers, now, nextTick>>

\* the clock advances; the interval and the timers that are due run first
AdvanceTime ==
    /\ now + Quantum <= MaxQuanta * Quantum
    /\ nextTick = None \/ now < nextTick
    /\ \A t \in timers : now < t.due
    /\ now' = now + Quantum
    /\ hist' = [id \in Ids |->
                  IF hist[id].notBefore <= now + Quantum
                  THEN [hist[id] EXCEPT !.notBefore = None]
                  ELSE hist[id]]
    /\ UNCHANGED <<msgs, queue, processing, awaited, inflight, timers,
                   handlers, nextTick, lastStats>>

\* a time seen from an origin moved forward by one quantum; what is past
\* stays past
Slid(t) == IF t = None THEN None ELSE IF t >= Quantum THEN t - Quantum ELSE 0

\* the clock advances beyond the horizon of the model: the origin of time
\* moves with it, so that every time the program compares with the clock
\* keeps its distance to the clock
SlideTime ==
    /\ now + Quantum > MaxQuanta * Quantum
    /\ now < nextTick
    /\ \A t \in timers : now < t.due
    /\ nextTick' = Slid(nextTick)
    /\ timers' = {[t EXCEPT !.due = Slid(@)] : t \in timers}
    /\ msgs' = [id \in Ids |->
                  [msgs[id] EXCEPT !.scheduledFor = Slid(@)]]
    /\ hist' = [id \in Ids |->
                  [hist[id] EXCEPT !.notBefore =
                      IF @ = None \/ Slid(@) <= now THEN None ELSE Slid(@)]]
    /\ UNCHANGED <<queue, processing, awaited, inflight, handlers, now,
                   lastStats>>

----------------------------------------------------------------------------
(* Specifications *)

NoStats == [pending |-> None, sending |-> None, sent |-> None,
            failed |-> None, total |-> None]

\* the queue after its constructor: empty, no handler, the interval started
Init ==
    /\ msgs = <<>>
    /\ queue = <<>>
    /\ processing = FALSE
    /\ awaited = {}
    /\ inflight = <<>>
    /\ timers = {}
    /\ handlers = [onMessageSent |-> NoHandler,
                   onMessageFailed |-> NoHandler,
                   onQueueStatsChanged |-> NoHandler]
    /\ now = 0
    /\ nextTick = ProcessInterval
    /\ ret = NoRet
    /\ lastStats = [h \in Subscribers |-> NoStats]
    /\ hist = <<>>
    /\ registered = {}

\* What a caller that keeps the result of its call records
Returned(op, id, val) == [op |-> op, id |-> id, val |-> val]

\* The delivery scenarios: few unscheduled messages of one priority, callers
\* that drop what their calls return (as the messenger component does), and
\* the dispatcher, the timers, the transport and the clock
Next ==
    \/ \E n \in 1..MaxAttemptsBound :
          /\ Len(msgs) < MaxMsgs
          /\ AddMessage("normal", None, n)
          /\ UNCHANGED <<ret, registered>>
    \/ \E id \in Ids : CancelMessage(id) /\ UNCHANGED <<ret, registered>>
    \/ ClearCompleted /\ UNCHANGED <<ret, registered>>
    \/ \E id \in Ids : RetryFailedMessage(id) /\ UNCHANGED <<ret, registered>>
    \/ OnMessageSent(1) /\ UNCHANGED ret
    \/ OnMessageFailed(1) /\ UNCHANGED ret
    \/ ProcessQueue /\ UNCHANGED <<ret, registered>>
    \/ \E t \in timers : TimerFires(t) /\ UNCHANGED <<ret, registered>>
    \/ \E id \in Ids, o \in Outcomes : Resolve(id, o) /\ UNCHANGED <<ret, registered>>
    \/ AdvanceTime /\ UNCHANGED <<ret, registered>>

Spec == Init /\ [][Next]_vars

\* The store scenarios: messages with a budget of one attempt (no backoff
\* timer is ever set), callers that keep what cancelMessage, clearCompleted
\* and retryFailed return, ids of no message among the arguments
NextApi ==
    \/ /\ Len(msgs) < MaxApiMsgs
       /\ AddMessage("normal", None, 1)
       /\ ret' = NoRet /\ UNCHANGED registered
    \/ \E id \in 1..(Len(msgs) + 1) :
          /\ CancelMessage(id)
          /\ ret' = Returned("cancel", id, CancelReturns(id)) /\ UNCHANGED registered
    \/ ClearCompleted /\ ret' = Returned("clear", 0, ClearReturns) /\ UNCHANGED registered
    \/ RetryFailed /\ ret' = Returned("retry", 0, RetryReturns) /\ UNCHANGED registered
    \/ \E id \in Ids : RetryFailedMessage(id) /\ ret' = NoRet /\ UNCHANGED registered
    \/ OnQueueStatsChanged(1) /\ ret' = NoRet
    \/ ProcessQueue /\ ret' = NoRet /\ UNCHANGED registered
    \/ \E id \in Ids, o \in Outcomes : Resolve(id, o) /\ ret' = NoRet /\ UNCHANGED registered
    \/ AdvanceTime /\ ret' = NoRet /\ UNCHANGED registered

SpecApi == Init /\ [][NextApi]_vars

\* The ordering scenario: enqueues of every priority, unscheduled or
\* scheduled for one of two times
NextOrder ==
    \E p \in Priorities, s \in {None, Quantum, 2 * Quantum} :
        /\ Len(msgs) < MaxOrderMsgs
        /\ AddMessage(p, s, 1)
        /\ UNCHANGED <<ret, registered>>

SpecOrder == Init /\ [][NextOrder]_vars

\* The batch scenario: a burst of enqueues before the first cycle, more
\* messages than a batch holds, of two priorities, unscheduled or scheduled
\* after the first cycle, and a transport that delivers
NextBatch ==
    \/ \E p \in {"normal", "high"}, s \in {None, ProcessInterval + Quantum} :
          /\ Len(msgs) < MaxBatchMsgs
          /\ now < ProcessInterval
          /\ AddMessage(p, s, 1)
          /\ UNCHANGED <<ret, registered>>
    \/ ProcessQueue /\ UNCHANGED <<ret, registered>>
    \/ \E id \in Ids : Resolve(id, "ok") /\ UNCHANGED <<ret, registered>>
    \/ AdvanceTime /\ UNCHANGED <<ret, registered>>

SpecBatch == Init /\ [][NextBatch]_vars

\* the subscribers registered so far at a subscription point
RegisteredAt(point) == {h \in Subscribers : <<point, h>> \in registered}

\* the next subscriber to register at a point is one that returns normally
NextSubscriber(point, h) ==
    /\ ~Throws(h)
    /\ h = Cardinality(RegisteredAt(point)) + 1

\* The subscription scenario: subscribers that return normally register one
\* after another at the three points, at any time, while messages with a
\* budget of one attempt are enqueued and delivered or failed
NextSubs ==
    \/ \E h \in Subscribers :
          /\ NextSubscriber("onMessageSent", h)
          /\ OnMessageSent(h)
          /\ UNCHANGED ret
    \/ \E h \in Subscribers :
          /\ NextSubscriber("onMessageFailed", h)
          /\ OnMessageFailed(h)
          /\ UNCHANGED ret
    \/ \E h \in Subscribers :
          /\ NextSubscriber("onQueueStatsChanged", h)
          /\ OnQueueStatsChanged(h)
          /\ UNCHANGED ret
    \/ /\ Len(msgs) < MaxApiMsgs
       /\ AddMessage("normal", None, 1)
       /\ UNCHANGED <<ret, registered>>
    \/ ProcessQueue /\ UNCHANGED <<ret, registered>>
    \/ \E id \in Ids, o \in Outcomes :
          Resolve(id, o) /\ UNCHANGED <<ret, registered>>
    \/ AdvanceTime /\ UNCHANGED <<ret, registered>>

SpecSubs == Init /\ [][NextSubs]_vars

\* a subscription point that holds no handler yet gets subscriber 1, which
\* returns normally, or subscriber -1, which throws
FirstSubscriber(point, h) ==
    /\ h \in {1, -1}
    /\ handlers[point] = NoHandler

\* The throwing-subscriber scenario: each point gets at most one subscriber,
\* which may be one that throws, at any time, while messages are enqueued
\* and the dispatcher, the timers, the transport and the clock run
NextThrow ==
    \/ \E h \in Subscribers :
          /\ FirstSubscriber("onMessageSent", h)
          /\ OnMessageSent(h)
          /\ UNCHANGED ret
    \/ \E h \in Subscribers :
          /\ FirstSubscriber("onMessageFailed", h)
          /\ OnMessageFailed(h)
          /\ UNCHANGED ret
    \/ \E h \in Subscribers :
          /\ FirstSubscriber("onQueueStatsChanged", h)
          /\ OnQueueStatsChanged(h)
          /\ UNCHANGED ret
    \/ \E n \in 1..MaxThrowAttempts :
          /\ Len(msgs) < MaxApiMsgs
          /\ AddMessage("normal", None, n)
          /\ UNCHANGED <<ret, registered>>
    \/ ProcessQueue /\ UNCHANGED <<ret, registered>>
    \/ \E t \in timers : TimerFires(t) /\ UNCHANGED <<ret, registered>>
    \/ \E id \in Ids, o \in Outcomes :
          Resolve(id, o) /\ UNCHANGED <<ret, registered>>
    \/ AdvanceTime /\ UNCHANGED <<ret, registered>>

SpecThrow == Init /\ [][NextThrow]_vars

\* The scheduling scenario: messages that are unscheduled, scheduled before
\* the first cycle or scheduled between the first and the second cycle, with
\* retries, backoff timers and the manual retry-reset
NextSched ==
    \/ \E s \in {None, Quantum, ProcessInterval + Quantum},
          n \in 1..MaxAttemptsBound :
          /\ Len(msgs) < MaxMsgs
          /\ AddMessage("normal", s, n)
          /\ UNCHANGED <<ret, registered>>
    \/ \E id \in Ids : RetryFailedMessage(id) /\ UNCHANGED <<ret, registered>>
    \/ ProcessQueue /\ UNCHANGED <<ret, registered>>
    \/ \E t \in timers : TimerFires(t) /\ UNCHANGED <<ret, registered>>
    \/ \E id \in Ids, o \in Outcomes :
          Resolve(id, o) /\ UNCHANGED <<ret, registered>>
    \/ AdvanceTime /\ UNCHANGED <<ret, registered>>

SpecSched == Init /\ [][NextSched]_vars

\* The frame scenario: normal messages with a budget of two attempts and
\* high messages with a budget of one are enqueued at any time, between
\* messages in every status, while callers cancel and the dispatcher, the
\* timers, a transport that delivers or returns false, and the clock run
NextFrame ==
    \/ \E k \in {<<"normal", 2>>, <<"high", 1>>} :
          /\ Len(msgs) < MaxFrameMsgs
          /\ AddMessage(k[1], None, k[2])
          /\ UNCHANGED <<ret, registered>>
    \/ \E id \in Ids : CancelMessage(id) /\ UNCHANGED <<ret, registered>>
    \/ ProcessQueue /\ UNCHANGED <<ret, registered>>
    \/ \E t \in timers : TimerFires(t) /\ UNCHANGED <<ret, registered>>
    \/ \E id \in Ids, o \in {"ok", "false"} :
          Resolve(id, o) /\ UNCHANGED <<ret, registered>>
    \/ AdvanceTime /\ UNCHANGED <<ret, registered>>

SpecFrame == Init /\ [][NextFrame]_vars

\* The steps of the progress scenario: finitely many messages, unscheduled
\* or scheduled between the first and the second cycle, and no caller
\* besides the one that enqueues
LiveEnqueue ==
    \E s \in {None, ProcessInterval + Quantum}, n \in 1..MaxThrowAttempts :
        /\ Len(msgs) < MaxMsgs
        /\ AddMessage("normal", s, n)
        /\ UNCHANGED <<ret, registered>>

LiveTick == ProcessQueue /\ UNCHANGED <<ret, registered>>

LiveTimer == \E t \in timers : TimerFires(t) /\ UNCHANGED <<ret, registered>>

LiveResolve(id) ==
    \E o \in Outcomes :
        Resolve(id, o) /\ UNCHANGED <<ret, registered>>

LiveClock == (AdvanceTime \/ SlideTime) /\ UNCHANGED <<ret, registered>>

NextLive ==
    \/ LiveEnqueue
    \/ LiveTick
    \/ LiveTimer
    \/ \E id \in Ids : LiveResolve(id)
    \/ LiveClock

\* The progress scenario with what the runtime guarantees: time passes, the
\* interval keeps calling processQueue, a timer that is due fires, and (the
\* claim's premise) every transport call resolves
SpecLive ==
    /\ Init
    /\ [][NextLive]_vars
    /\ WF_vars(LiveClock)
    /\ WF_vars(LiveTick)
    /\ WF_vars(LiveTimer)
    /\ \A id \in 1..MaxMsgs : WF_vars(LiveResolve(id))

\* processingInterval is null: destroy() was called
Destroyed == nextTick = None

\* The shutdown scenario: subscribers register and a message is enqueued
\* while the queue is live, destroy() is called at any time, once, and the
\* timers, the transport and the clock go on
NextDestroy ==
    \/ ~Destroyed /\ OnMessageSent(1) /\ UNCHANGED ret
    \/ ~Destroyed /\ OnMessageFailed(1) /\ UNCHANGED ret
    \/ ~Destroyed /\ OnQueueStatsChanged(1) /\ UNCHANGED ret
    \/ \E n \in 1..MaxThrowAttempts :
          /\ ~Destroyed
          /\ Len(msgs) < MaxMsgs
          /\ AddMessage("normal", None, n)
          /\ UNCHANGED <<ret, registered>>
    \/ ~Destroyed /\ Destroy /\ UNCHANGED <<ret, registered>>
    \/ ProcessQueue /\ UNCHANGED <<ret, registered>>
    \/ \E t \in timers : TimerFires(t) /\ UNCHANGED <<ret, registered>>
    \/ \E id \in Ids, o \in Outcomes :
          Resolve(id, o) /\ UNCHANGED <<ret, registered>>
    \/ AdvanceTime /\ UNCHANGED <<ret, registered>>

SpecDestroy == Init /\ [][NextDestroy]_vars

\* The removal scenario: on-sent and on-failed subscribers, a message, and
\* callers that take messages out of the store with removeMessage, whatever
\* their status, or with clearCompleted
NextRemove ==
    \/ OnMessageSent(1) /\ UNCHANGED ret
    \/ OnMessageFailed(1) /\ UNCHANGED ret
    \/ \E n \in 1..MaxThrowAttempts :
          /\ Len(msgs) < MaxMsgs
          /\ AddMessage("normal", None, n)
          /\ UNCHANGED <<ret, registered>>
    \/ \E id \in Ids :
          /\ CanRemove(queue, id)
          /\ RemoveMessage(id)
          /\ UNCHANGED <<ret, registered>>
    \/ ClearCompleted /\ UNCHANGED <<ret, registered>>
    \/ ProcessQueue /\ UNCHANGED <<ret, registered>>
    \/ \E t \in timers : TimerFires(t) /\ UNCHANGED <<ret, registered>>
    \/ \E id \in Ids, o \in Outcomes :
          Resolve(id, o) /\ UNCHANGED <<ret, registered>>
    \/ AdvanceTime /\ UNCHANGED <<ret, registered>>

SpecRemove == Init /\ [][NextRemove]_vars

----------------------------------------------------------------------------
(* Claims about delivery, checked under Spec *)

\* a processMessage invocation begins for message id in this step
Begins(id) == hist'[id].starts = hist[id].starts + 1

\* message id is reset by hand in this step
IsReset(id) == hist'[id].resets # hist[id].resets

HasTimer(id) == \E t \in timers : t.id = id

\* C1: every message has 0 <= attempts <= maxAttempts, and a failed message
\* has attempts = maxAttempts, whatever the interleaving of cycles, timers,
\* cancel, sweep and manual reset.
C1_AttemptsWithinBudget ==
    \A id \in Ids :
        /\ 0 <= msgs[id].attempts
        /\ msgs[id].attempts <= msgs[id].maxAttempts
        /\ (msgs[id].status = "failed"
              => msgs[id].attempts = msgs[id].maxAttempts)

\* a message that failed, was reset by hand and used up its budget again
C1_Witness ==
    \E id \in Ids :
        /\ msgs[id].status = "failed"
        /\ msgs[id].maxAttempts >= 2
        /\ msgs[id].attempts = msgs[id].maxAttempts
        /\ hist[id].resets = 1

\* C2: a message never has two processMessage invocations in flight, and one
\* is in flight only while the message is sending.
C2_NoOverlappingAttempts ==
    \A id \in Ids :
        /\ inflight[id] <= 1
        /\ (inflight[id] = 1 => msgs[id].status = "sending")

\* a message is in flight while a backoff timer of an earlier failure of it is
\* due: the timer's callback runs next and must not start a second attempt
C2_Witness ==
    \E t \in timers :
        /\ now >= t.due
        /\ msgs[t.id].status = "sending"
        /\ inflight[t.id] = 1

\* C3: once attempt k < maxAttempts of a message has failed, no attempt of it
\* begins before the backoff delay min(1000 * 2^(k-1), 30000) has passed since
\* that failure, be it begun by the timer or by a dispatcher cycle.
C3_BackoffRespected ==
    [][\A id \in Ids :
          Begins(id) =>
             \/ hist[id].notBefore = None
             \/ now >= hist[id].notBefore]_vars

\* C4: short of a manual reset, a sent, failed or cancelled message keeps its
\* status and attempts and no attempt begins for it, also when a backoff timer
\* of it is still outstanding.
C4_TerminalStays ==
    [][\A id \in Ids :
          (Terminal(msgs[id].status) /\ ~IsReset(id)) =>
             /\ msgs'[id] = msgs[id]
             /\ ~Begins(id)
             /\ inflight'[id] = inflight[id]]_vars

\* a message cancelled after its first attempt failed, whose backoff timer has
\* fired since (an unfired timer would still be outstanding, a timer fired
\* before the cancel would have begun a second attempt)
C4_Witness ==
    \E id \in Ids :
        /\ msgs[id].status = "cancelled"
        /\ msgs[id].attempts = 1
        /\ ~HasTimer(id)

\* C8: a cycle selects a batch only when every message of the batch selected
\* before has resolved (left sending) since.
C8_OneBatchAtATime ==
    [][(\E id \in Ids : ~hist[id].inBatch /\ hist'[id].inBatch)
          => \A id \in Ids : ~hist[id].inBatch]_vars

\* the interval is due while one message of the batch is unresolved and
\* another message is eligible
C8_Witness ==
    /\ now >= nextTick
    /\ \E id \in Ids : hist[id].inBatch /\ msgs[id].status = "sending"
    /\ \E id \in Ids : Eligible(msgs[id], now) /\ InQueue(id)

\* C10: a message becomes failed only by a failed attempt that leaves
\* attempts = maxAttempts, the maxAttempts-th invocation since it was enqueued
\* or reset; the onMessageFailed handler is called once at that step and at no
\* other step, in particular not when a failed attempt is retried.
C10_FailedAfterBudget ==
    [][\A id \in Ids :
          /\ (msgs[id].status # "failed" /\ msgs'[id].status = "failed") =>
                /\ msgs[id].status = "sending"
                /\ msgs'[id].attempts = msgs[id].maxAttempts
                /\ hist'[id].starts = msgs[id].maxAttempts
                /\ (handlers.onMessageFailed # NoHandler =>
                      hist'[id].failedCalls = hist[id].failedCalls + 1)
          /\ (hist'[id].failedCalls # hist[id].failedCalls) =>
                /\ msgs[id].status = "sending"
                /\ msgs'[id].status = "failed"
                /\ hist'[id].failedCalls = hist[id].failedCalls + 1
          /\ (msgs[id].status = "sending" /\ msgs'[id].status = "pending") =>
                /\ msgs'[id].attempts < msgs[id].maxAttempts
                /\ HasTimer(id)']_vars

\* a message with maxAttempts = 2 failed after two invocations, its handler
\* called once
C10_Witness ==
    \E id \in Ids :
        /\ msgs[id].status = "failed"
        /\ msgs[id].maxAttempts = 2
        /\ msgs[id].attempts = 2
        /\ hist[id].starts = 2
        /\ hist[id].failedCalls = 1
        /\ hist[id].resets = 0

----------------------------------------------------------------------------
(* Claims about the store and the batch *)

\* C5: cancelMessage(id) returns true exactly when the message is stored and
\* pending, and then only sets that message's status to cancelled; otherwise
\* (unknown id, sending, sent, failed, cancelled) it returns false and leaves
\* every message and the store as they were.
C5_CancelOnlyPending ==
    [][ret'.op = "cancel" =>
          LET id == ret'.id
              stored == id \in Ids /\ InQueue(id)
          IN  /\ ret'.val \in BOOLEAN
              /\ ret'.val = (stored /\ msgs[id].status = "pending")
              /\ ret'.val =>
                    /\ msgs' = [msgs EXCEPT ![id].status = "cancelled"]
                    /\ queue' = queue
              /\ ~ret'.val => (msgs' = msgs /\ queue' = queue)]_vars

\* cancelMessage has just returned false for a message in flight, which is
\* still sending
C5_Witness ==
    /\ ret.op = "cancel"
    /\ ret.val = FALSE
    /\ ret.id \in Ids
    /\ msgs[ret.id].status = "sending"
    /\ inflight[ret.id] = 1

Unscheduled(id) == msgs[id].scheduledFor = None

\* the message at position i of the store is ordered before the one at j > i
\* by key, ties broken by order of enqueue (ids are given in that order)
InOrderBy(key(_), i, j) ==
    \/ key(queue[i]) < key(queue[j])
    \/ key(queue[i]) = key(queue[j]) /\ queue[i] < queue[j]

PriorityKey(id) == PriorityOrder(msgs[id].priority)

ScheduleKey(id) == msgs[id].scheduledFor

\* C6: when no enqueued message carries a scheduled time, the store lists the
\* messages by priority, urgent first, equal priorities in order of enqueue.
C6_PriorityOrder ==
    (\A id \in Ids : Unscheduled(id)) =>
        \A i, j \in 1..Len(queue) : i < j => InOrderBy(PriorityKey, i, j)

\* low, urgent, normal, high enqueued in that order list as urgent, high,
\* normal, low
C6_Witness ==
    /\ Len(msgs) = 4
    /\ \A id \in Ids : Unscheduled(id)
    /\ <<msgs[1].priority, msgs[2].priority, msgs[3].priority,
         msgs[4].priority>> = <<"low", "urgent", "normal", "high">>
    /\ queue = <<2, 4, 3, 1>>

\* C7: when every enqueued message carries a scheduled time, the store lists
\* the messages by scheduled time whatever their priorities, equal times in
\* order of enqueue.
C7_ScheduleOrder ==
    (\A id \in Ids : ~Unscheduled(id)) =>
        \A i, j \in 1..Len(queue) : i < j => InOrderBy(ScheduleKey, i, j)

\* a normal message scheduled later, then a low and an urgent one both
\* scheduled earlier: the earlier two first, in their order of enqueue
C7_Witness ==
    /\ Len(msgs) = 3
    /\ msgs[1].priority = "normal" /\ msgs[1].scheduledFor = 2 * Quantum
    /\ msgs[2].priority = "low" /\ msgs[2].scheduledFor = Quantum
    /\ msgs[3].priority = "urgent" /\ msgs[3].scheduledFor = Quantum
    /\ queue = <<2, 3, 1>>

\* the positions of the store that hold an eligible message
EligiblePositions ==
    {i \in 1..Len(queue) :
        /\ msgs[queue[i]].status = "pending"
        /\ (Unscheduled(queue[i]) \/ msgs[queue[i]].scheduledFor <= now)}

\* the messages moved from pending to sending in this step
MovedToSending ==
    {id \in Ids : msgs[id].status = "pending" /\ msgs'[id].status = "sending"}

\* C9: a dispatcher cycle moves to sending exactly the eligible messages that
\* have fewer than 5 eligible messages before them in the store, so at most 5
\* and none skipped for a later one (and none when the flag is set).
C9_BatchIsFirstFive ==
    [][nextTick' # nextTick =>
          IF processing THEN MovedToSending = {}
          ELSE /\ Cardinality(MovedToSending) =
                     Min(5, Cardinality(EligiblePositions))
               /\ \A i \in 1..Len(queue) :
                     queue[i] \in MovedToSending <=>
                        /\ i \in EligiblePositions
                        /\ Cardinality({j \in EligiblePositions : j < i}) < 5
       ]_vars

\* five messages are in flight while a sixth, eligible and enqueued before
\* one of the five, waits behind them in the store
C9_Witness ==
    /\ Cardinality({id \in Ids : msgs[id].status = "sending"}) = 5
    /\ \E i \in EligiblePositions :
          \E j \in 1..Len(queue) :
             /\ j < i
             /\ queue[i] < queue[j]
             /\ msgs[queue[j]].status = "sending"

\* the transport delivers message id in this step
Delivers(id) == hist'[id].delivered = hist[id].delivered + 1

\* C11: the step in which the transport first delivers a message leaves it
\* sent with attempts = the number of attempts started for it, within its
\* budget, on-sent called once if a handler is registered and, for a message
\* never reset by hand, on-failed never called; after that step no attempt is
\* started for it, nothing is delivered again and no callback fires again,
\* whatever timers are still outstanding.
C11_FirstSuccessSettles ==
    [][\A id \in Ids :
         /\ Delivers(id) =>
              /\ msgs'[id].status = "sent"
              /\ msgs'[id].attempts = hist'[id].starts
              /\ msgs'[id].attempts <= msgs'[id].maxAttempts
              /\ hist'[id].delivered = 1
              /\ hist'[id].sentCalls =
                    IF handlers.onMessageSent # NoHandler THEN 1 ELSE 0
              /\ (hist[id].resets = 0 => hist'[id].failedCalls = 0)
         /\ hist[id].delivered >= 1 =>
              /\ ~Begins(id)
              /\ msgs'[id] = msgs[id]
              /\ hist'[id].delivered = hist[id].delivered
              /\ hist'[id].sentCalls = hist[id].sentCalls
              /\ hist'[id].failedCalls = hist[id].failedCalls]_vars

\* a message delivered by its second attempt, on-sent called once, while the
\* backoff timer of its first failure is still outstanding
C11_Witness ==
    \E id \in Ids :
        /\ msgs[id].status = "sent"
        /\ msgs[id].attempts = 2
        /\ hist[id].delivered = 1
        /\ hist[id].sentCalls = 1
        /\ hist[id].failedCalls = 0
        /\ HasTimer(id)

\* the failed messages of the store
FailedInQueue == {id \in Ids : InQueue(id) /\ msgs[id].status = "failed"}

\* C12: a call of retryFailed() leaves every message that was failed pending
\* with attempts 0, and returns how many messages were failed.
C12_RetryResetsAllFailed ==
    [][ret'.op = "retry" =>
         /\ ret'.val = Cardinality(FailedInQueue)
         /\ \A id \in FailedInQueue :
               /\ msgs'[id].status = "pending"
               /\ msgs'[id].attempts = 0]_vars

\* C13: the manual retry-reset acts on a failed message with attempts =
\* maxAttempts and leaves it pending with attempts 0, eligible for the next
\* cycle; from then on no more than maxAttempts attempts are started for it
\* (until it is reset again), and none once it is sent or failed again.
C13_ResetRestoresBudget ==
    [][\A id \in Ids :
         /\ IsReset(id) =>
              /\ msgs[id].status = "failed"
              /\ msgs[id].attempts = msgs[id].maxAttempts
              /\ msgs'[id].status = "pending"
              /\ msgs'[id].attempts = 0
              /\ Eligible(msgs'[id], now')
         /\ (hist[id].resets >= 1 /\ Begins(id)) =>
              /\ msgs[id].status = "pending"
              /\ hist'[id].starts <= msgs[id].maxAttempts
              /\ msgs'[id].attempts = hist'[id].starts]_vars

\* a message that failed, was reset by hand, and was then delivered by the
\* last attempt of its restored budget
C13_Witness ==
    \E id \in Ids :
        /\ hist[id].resets = 1
        /\ msgs[id].maxAttempts = 2
        /\ hist[id].starts = msgs[id].maxAttempts
        /\ msgs[id].status = "sent"

\* message id is pending or sending
IsOpen(id) == msgs[id].status \in {"pending", "sending"}

\* C14: a call of clearCompleted() leaves in the store exactly the pending
\* and sending messages, in their order and unchanged, and returns the number
\* of sent, failed and cancelled messages it removed; called again right
\* after, it returns 0 and changes nothing.
C14_SweepRemovesTerminal ==
    [][ret'.op = "clear" =>
         /\ queue' = SelectSeq(queue, IsOpen)
         /\ msgs' = msgs
         /\ ret'.val = Cardinality({id \in Range(queue) : ~IsOpen(id)})
         /\ (ret.op = "clear" => ret'.val = 0 /\ queue' = queue)]_vars

\* a sweep has just removed a cancelled message and left a sending one
C14_Witness ==
    /\ ret.op = "clear"
    /\ ret.val = 1
    /\ Len(queue) = 1
    /\ msgs[queue[1]].status = "sending"
    /\ \E id \in Ids : ~InQueue(id) /\ msgs[id].status = "cancelled"

\* C15: every step that changes a message or the store while a handler is
\* registered for the stats hands that handler the stats of the new store.
C15_StatsFollowStore ==
    [][(handlers.onQueueStatsChanged # NoHandler
          /\ (msgs' # msgs \/ queue' # queue)) =>
         lastStats'[handlers.onQueueStatsChanged] = GetStats(msgs', queue')]_vars

\* C16: every subscriber registered at a point is notified of the point's
\* events: each registered stats subscriber is handed the stats of the new
\* store by every step that changes it, each registered on-sent subscriber
\* is called when a message is delivered, and each registered on-failed
\* subscriber when a message is marked failed.
C16_AllSubscribersNotified ==
    [][/\ (msgs' # msgs \/ queue' # queue) =>
            \A h \in RegisteredAt("onQueueStatsChanged") :
                lastStats'[h] = GetStats(msgs', queue')
       /\ \A id \in Ids :
            /\ Delivers(id) =>
                 hist'[id].sentCalls = hist[id].sentCalls
                    + Cardinality(RegisteredAt("onMessageSent"))
            /\ (msgs[id].status # "failed" /\ msgs'[id].status = "failed") =>
                 hist'[id].failedCalls = hist[id].failedCalls
                    + Cardinality(RegisteredAt("onMessageFailed"))]_vars

\* C17: whatever the subscribers do when called, the step in which the
\* transport delivers a message leaves it sent, and a delivered message stays
\* sent and is not delivered a second time.
C17_DeliveryOutlivesSubscriber ==
    [][\A id \in Ids :
         /\ Delivers(id) => msgs'[id].status = "sent"
         /\ hist[id].delivered >= 1 =>
              /\ msgs'[id].status = "sent"
              /\ ~Delivers(id)]_vars

\* an invocation of processMessage for message id ends in this step
Resolves(id) == inflight'[id] = inflight[id] - 1

\* C18: the cycle that takes the flag starts every message of its batch in
\* the same step; from then on a sending message is changed only by the end
\* of its own invocation, whatever happens to its siblings, and that end
\* depends on its own transport result alone: delivered means sent and
\* on-sent, otherwise failed and on-failed when the budget is used up, else
\* pending.
C18_SiblingsIsolated ==
    [][/\ (~processing /\ processing') =>
            /\ awaited' # {}
            /\ \A id \in awaited' :
                  /\ Begins(id)
                  /\ msgs'[id].status = "sending"
                  /\ inflight'[id] = 1
       /\ \A id \in Ids :
            /\ (msgs[id].status = "sending" /\ ~Resolves(id)) =>
                 /\ msgs'[id] = msgs[id]
                 /\ inflight'[id] = inflight[id]
                 /\ hist'[id].sentCalls = hist[id].sentCalls
                 /\ hist'[id].failedCalls = hist[id].failedCalls
            /\ (msgs[id].status = "sending" /\ Resolves(id)) =>
                 /\ msgs'[id].attempts = msgs[id].attempts
                 /\ msgs'[id].status =
                       IF Delivers(id) THEN "sent"
                       ELSE IF msgs[id].attempts >= msgs[id].maxAttempts
                            THEN "failed" ELSE "pending"
                 /\ hist'[id].sentCalls = hist[id].sentCalls +
                       IF Delivers(id) /\ handlers.onMessageSent # NoHandler
                       THEN 1 ELSE 0
                 /\ hist'[id].failedCalls = hist[id].failedCalls +
                       IF msgs'[id].status = "failed"
                          /\ handlers.onMessageFailed # NoHandler
                       THEN 1 ELSE 0]_vars

\* the first cycle started two messages; the transport failed one of them,
\* the other was delivered
C18_Witness ==
    /\ now = ProcessInterval
    /\ \E i, j \in Ids :
          /\ msgs[i].status = "failed"
          /\ hist[i].failedCalls = 1
          /\ msgs[j].status = "sent"
          /\ hist[j].sentCalls = 1

\* C19: what a caller does with the message get(id) returned to it, as the
\* messenger's manual retry-reset does when it writes status and attempts,
\* changes no message of the store and not the store's order.
C19_ReturnedMessageIsCopy ==
    [][\A id \in Ids : IsReset(id) => msgs' = msgs /\ queue' = queue]_vars

\* C20: two messages of the store without a scheduled time are in priority
\* order, whatever scheduled messages the store holds beside them.
C20_UnscheduledInPriorityOrder ==
    \A i, j \in 1..Len(queue) :
        (i < j /\ Unscheduled(queue[i]) /\ Unscheduled(queue[j])) =>
            PriorityOrder(msgs[queue[i]].priority)
                <= PriorityOrder(msgs[queue[j]].priority)

\* C21: two messages of the store that both carry a scheduled time are in
\* the order of their times, whatever unscheduled messages the store holds
\* beside them.
C21_ScheduledInTimeOrder ==
    \A i, j \in 1..Len(queue) :
        (i < j /\ ~Unscheduled(queue[i]) /\ ~Unscheduled(queue[j])) =>
            msgs[queue[i]].scheduledFor <= msgs[queue[j]].scheduledFor

\* C22: whenever an attempt is started for a message, by a cycle, by a
\* backoff timer or after a manual retry-reset, the message is unscheduled or
\* its scheduled time is not after the current time.
C22_NoAttemptBeforeSchedule ==
    [][\A id \in Ids :
         Begins(id) =>
            \/ msgs[id].scheduledFor = None
            \/ msgs[id].scheduledFor <= now]_vars

\* a message scheduled after the first cycle, passed over by that cycle,
\* started by the second one, retried by its backoff timer
C22_Witness ==
    \E id \in Ids :
        /\ msgs[id].scheduledFor = ProcessInterval + Quantum
        /\ hist[id].starts = 2
        /\ msgs[id].status = "sending"
        /\ ~hist[id].inBatch

\* C23: attempts grows only by 1 and only in a step that takes the message
\* from pending to sending (the manual retry-reset alone sets it back to 0);
\* the end of an attempt that did not deliver, whatever the kind of failure,
\* leaves attempts as it is and the message pending with a backoff timer of
\* the delay for that attempt when attempts < maxAttempts, failed with no
\* new timer otherwise.
C23_AttemptsAccounting ==
    [][\A id \in Ids :
         /\ Begins(id) =>
              /\ msgs[id].status = "pending"
              /\ msgs'[id].status = "sending"
              /\ msgs'[id].attempts = msgs[id].attempts + 1
         /\ (~Begins(id) /\ ~IsReset(id)) =>
              msgs'[id].attempts = msgs[id].attempts
         /\ (Resolves(id) /\ ~Delivers(id)) =>
              IF msgs[id].attempts < msgs[id].maxAttempts
              THEN /\ msgs'[id].status = "pending"
                   /\ [id |-> id,
                       due |-> now + BackoffDelay(msgs[id].attempts)]
                         \in timers'
              ELSE /\ msgs'[id].status = "failed"
                   /\ timers' = timers]_vars

\* a message with a budget of 3, never reset, whose three attempts all ended
\* without delivery: failed with attempts 3, on-failed called once
C23_Witness ==
    \E id \in Ids :
        /\ msgs[id].status = "failed"
        /\ msgs[id].attempts = 3
        /\ hist[id].resets = 0
        /\ hist[id].failedCalls = 1

\* C24: while a message that a cycle started is still sending, the flag of
\* that cycle is set, whatever the subscribers do when called.
C24_FlagHeldWhileBatchSending ==
    \A id \in Ids :
        (hist[id].inBatch /\ msgs[id].status = "sending") => processing

\* a message is enqueued in this step
Enqueues == Len(msgs') = Len(msgs) + 1

\* the sequence q without the id
Without(q, id) ==
    LET Other(x) == x # id
    IN  SelectSeq(q, Other)

\* C25: a step that enqueues adds one message, pending with attempts 0 and
\* no invocation in flight, starts no attempt, leaves every other message as
\* it was and the other messages of the store in the order they had; and a
\* step that changes the status of a message leaves the store's order as it
\* was.
C25_EnqueueAndTransitionsKeepOrder ==
    [][/\ Enqueues =>
            /\ msgs'[Len(msgs')].status = "pending"
            /\ msgs'[Len(msgs')].attempts = 0
            /\ inflight'[Len(msgs')] = 0
            /\ \A id \in Ids :
                  /\ msgs'[id] = msgs[id]
                  /\ inflight'[id] = inflight[id]
                  /\ ~Begins(id)
            /\ Len(queue') = Len(queue) + 1
            /\ Without(queue', Len(msgs')) = queue
       /\ (\E id \in Ids : msgs'[id].status # msgs[id].status) =>
            queue' = queue]_vars

\* a high message was enqueued between a high one that is sending and a
\* normal one that waits for its retry
C25_Witness ==
    /\ Len(queue) = 3
    /\ queue[2] = 3
    /\ msgs[queue[1]].status = "sending"
    /\ msgs[queue[2]].status = "pending"
    /\ msgs[queue[2]].attempts = 0
    /\ msgs[queue[3]].status = "pending"
    /\ msgs[queue[3]].attempts = 1

StoredWith(st) == {id \in Ids : InQueue(id) /\ msgs[id].status = st}

\* C27: getStats() reports for pending, sending, sent and failed the number
\* of stored messages with that status, total is the number of stored
\* messages, and what total exceeds the four counters by is the number of
\* cancelled messages in the store.
C27_StatsCountStore ==
    LET st == GetStats(msgs, queue)
    IN  /\ st.pending = Cardinality(StoredWith("pending"))
        /\ st.sending = Cardinality(StoredWith("sending"))
        /\ st.sent = Cardinality(StoredWith("sent"))
        /\ st.failed = Cardinality(StoredWith("failed"))
        /\ st.total = Cardinality({id \in Ids : InQueue(id)})
        /\ st.total - (st.pending + st.sending + st.sent + st.failed)
              = Cardinality(StoredWith("cancelled"))

\* a store of a cancelled and a failed message: total 2, failed 1
C27_Witness ==
    /\ StoredWith("cancelled") # {}
    /\ StoredWith("failed") # {}
    /\ GetStats(msgs, queue).total = 2
    /\ GetStats(msgs, queue).failed = 1

\* C28: once destroy() was called, no attempt is started for any message and
\* no subscriber is called: no on-sent or on-failed call is made and no stats
\* are delivered.
C28_InertAfterDestroy ==
    [][Destroyed =>
         /\ \A id \in Ids :
               /\ ~Begins(id)
               /\ hist'[id].sentCalls = hist[id].sentCalls
               /\ hist'[id].failedCalls = hist[id].failedCalls
         /\ lastStats' = lastStats]_vars

\* C29: on-sent and on-failed are called only for a message that is in the
\* store, and no attempt is started for a message that was taken out of it.
C29_OnlyStoredMessagesHandled ==
    [][\A id \in Ids :
         /\ (\/ hist'[id].sentCalls # hist[id].sentCalls
             \/ hist'[id].failedCalls # hist[id].failedCalls) => InQueue(id)
         /\ ~InQueue(id) => ~Begins(id)]_vars
====
